---- MODULE Spec2Model ----
(***************************************************************************)
(* Model of EventDistribution (event-distribution.ts): the handler         *)
(* registry trees, the lookup fan-out (getHandlers), the filter pipeline   *)
(* (filterHandlers) and the dispatcher (handleEvent).                      *)
(*                                                                         *)
(* A JavaScript async function runs without interruption between two       *)
(* awaits, so every action below is one such synchronous segment.          *)
(***************************************************************************)
EXTENDS Integers, Sequences, FiniteSets, TLC

VARIABLES
    handlers,   \* EventDistribution.handlers: event kind -> registry tree
    registered, \* number of addWithOptions calls made so far
    dispatch,   \* one record per handleEvent call slot (locals + observed calls)
    probe,      \* input/output of a direct call of a pure function
    nameIdMap,  \* EventDistribution.nameIdMap: command name -> command id
    startup,    \* the initialize call: its position and what it observed
    autocomplete \* the handleAutocomplete call: its position and its calls

vars == <<handlers, registered, dispatch, probe, nameIdMap, startup, autocomplete>>

----------------------------------------------------------------------------
(* Bounds *)

MaxRegistrations == 2   \* addWithOptions calls in a behaviour
MaxOccurrences == 2     \* HandlerInfos extractEventInfo yields for one event
MaxCandidates == 2      \* candidates in a direct filterHandlers call
MaxDepth == 2           \* levels of a registry tree in a direct getHandlers call

----------------------------------------------------------------------------
(* Values *)

\* DiscordEvent members the model uses (types/base.js)
Events ==
    {"MESSAGE", "TIMER", "SLASH_COMMAND", "CONTEXT_MENU_MESSAGE", "CONTEXT_MENU_USER"}

\* The event kinds the modelled host delivers to handleEvent directly
DeliveredEvents == {"MESSAGE", "TIMER"}

\* EventLocation, plus the case of options carrying no location
Locations == {"ANYWHERE", "DIRECT_MESSAGE", "SERVER", "UNDEFINED"}

\* HandlerRejectedReason
WRONG_LOCATION == "WRONG_LOCATION"
MISSING_ROLE == "MISSING_ROLE"
DOESNT_MATCH_REGEX == "DOESNT_MATCH_REGEX"

\* content === null
Null == "<null>"

\* JavaScript sequences
Includes(seq, x) == \E n \in 1..Len(seq) : seq[n] = x

SeqsUpTo(S, n) == UNION {[1..k -> S] : k \in 0..n}

\* An optional property: absent (undefined), or present with a value
Present(v) == [defined |-> TRUE, value |-> v]
NoList == [defined |-> FALSE, value |-> <<>>]
NoRegex == [defined |-> FALSE, value |-> {}]
NoMap == [defined |-> FALSE, value |-> [k \in {} |-> ""]]

\* A RegExp is modelled by the set of contents it matches
ContentMatch(content, regex) == content \in regex.value

\* isMessageRelated(options): the location / role / content constraints apply
isMessageRelated(options) == options.event \in {"MESSAGE", "SLASH_COMMAND"}

----------------------------------------------------------------------------
(* Filter pipeline *)

isHandlerForLocationAnywhere(handler, isDirectMessage) == TRUE

isHandlerForLocation(handler, isDirectMessage) ==
    IF ~isMessageRelated(handler.options) THEN TRUE
    ELSE CASE handler.options.location = "ANYWHERE" -> TRUE
           [] handler.options.location = "DIRECT_MESSAGE" -> isDirectMessage
           [] handler.options.location = "SERVER" -> ~isDirectMessage
           [] OTHER -> FALSE

isHandlerForRole(handler, roleNames) ==
    IF ~isMessageRelated(handler.options) THEN TRUE
    ELSE LET allowedRoles == handler.options.allowedRoles IN
         \/ ~allowedRoles.defined
         \/ Len(allowedRoles.value) = 0
         \/ \E n \in 1..Len(allowedRoles.value) :
                Includes(roleNames, allowedRoles.value[n])

matchesContentRegex(handler, content) ==
    IF ~isMessageRelated(handler.options) \/ ~handler.options.contentRegex.defined
    THEN TRUE
    ELSE IF content = Null THEN FALSE
    ELSE ContentMatch(content, handler.options.contentRegex)

\* The three .map stages of filterHandlers
LocationStage(eh, isDirectMessage) ==
    IF isHandlerForLocation(eh, isDirectMessage)
    THEN [handler |-> eh, accepted |-> TRUE, reason |-> "NONE"]
    ELSE [handler |-> eh, accepted |-> FALSE, reason |-> WRONG_LOCATION]

RoleStageNoShortCircuit(r, roleNames) ==
    IF isHandlerForRole(r.handler, roleNames) THEN r
    ELSE [r EXCEPT !.accepted = FALSE, !.reason = MISSING_ROLE]

RoleStage(r, roleNames) ==
    IF ~r.accepted THEN r
    ELSE IF isHandlerForRole(r.handler, roleNames) THEN r
    ELSE [r EXCEPT !.accepted = FALSE, !.reason = MISSING_ROLE]

ContentStage(r, content) ==
    IF ~r.accepted THEN r
    ELSE IF matchesContentRegex(r.handler, content) THEN r
    ELSE [r EXCEPT !.accepted = FALSE, !.reason = DOESNT_MATCH_REGEX]

filterHandlers(hs, isDirectMessage, roleNames, content) ==
    LET stage1 == [n \in 1..Len(hs) |-> LocationStage(hs[n], isDirectMessage)]
        stage2 == [n \in 1..Len(hs) |-> RoleStage(stage1[n], roleNames)]
    IN  [n \in 1..Len(hs) |-> ContentStage(stage2[n], content)]

----------------------------------------------------------------------------
(* Registry trees *)

\* A StringIndexedHIOCTreeNode: an array of HIOCs, or a map from key to node;
\* UndefinedNode is what indexing a map with a key it lacks yields.
NoChildren == [k \in {} |-> 0]
UndefinedNode == [kind |-> "undefined", hiocs |-> <<>>, children |-> NoChildren]
EmptyTree == [kind |-> "map", hiocs |-> <<>>, children |-> NoChildren]
HIOCArray(hiocs) == [kind |-> "array", hiocs |-> hiocs, children |-> NoChildren]

isHIOCArray(tree) == tree.kind = "array"

Child(tree, key) ==
    IF key \in DOMAIN tree.children THEN tree.children[key] ELSE UndefinedNode

\* [currentKey, ...restKeys] of a possibly empty array
CurrentKey(keys) == IF Len(keys) = 0 THEN "" ELSE Head(keys)
RestKeys(keys) == IF Len(keys) = 0 THEN <<>> ELSE Tail(keys)

RECURSIVE getHandlersExactFirst(_, _)
getHandlersExactFirst(handlerTree, keys) ==
    IF handlerTree.kind = "undefined" THEN <<>>
    ELSE IF isHIOCArray(handlerTree) THEN handlerTree.hiocs
    ELSE LET wild == getHandlersExactFirst(Child(handlerTree, ""), RestKeys(keys)) IN
         IF CurrentKey(keys) = "" THEN wild
         ELSE getHandlersExactFirst(Child(handlerTree, CurrentKey(keys)), RestKeys(keys))
              \o wild

RECURSIVE getHandlersTwice(_, _)
getHandlersTwice(handlerTree, keys) ==
    IF handlerTree.kind = "undefined" THEN <<>>
    ELSE IF isHIOCArray(handlerTree) THEN handlerTree.hiocs
    ELSE getHandlersTwice(Child(handlerTree, ""), RestKeys(keys))
         \o getHandlersTwice(Child(handlerTree, CurrentKey(keys)), RestKeys(keys))

RECURSIVE getHandlers(_, _)
getHandlers(handlerTree, keys) ==
    IF handlerTree.kind = "undefined" THEN <<>>
    ELSE IF isHIOCArray(handlerTree) THEN handlerTree.hiocs
    ELSE LET wild == getHandlers(Child(handlerTree, ""), RestKeys(keys)) IN
         IF CurrentKey(keys) = "" THEN wild
         ELSE wild \o getHandlers(Child(handlerTree, CurrentKey(keys)), RestKeys(keys))

\* addEventHandler: append the HIOC to the array at the end of the key path,
\* creating the nodes on the way
RECURSIVE Insert(_, _, _)
Insert(tree, keys, hioc) ==
    IF Len(keys) = 0
    THEN HIOCArray(Append(tree.hiocs, hioc))
    ELSE LET key == Head(keys)
             sub == IF key \in DOMAIN tree.children
                    THEN tree.children[key] ELSE EmptyTree
         IN  [kind |-> "map", hiocs |-> <<>>,
              children |-> [k \in DOMAIN tree.children \cup {key} |->
                               IF k = key THEN Insert(sub, Tail(keys), hioc)
                               ELSE tree.children[k]]]

RECURSIVE InsertAll(_, _, _)
InsertAll(tree, keyPaths, hioc) ==
    IF Len(keyPaths) = 0 THEN tree
    ELSE InsertAll(Insert(tree, Head(keyPaths), hioc), Tail(keyPaths), hioc)

addEventHandler(options, ioc, tree) ==
    InsertAll(tree, options.keyPaths, [ioc |-> ioc, options |-> options])

----------------------------------------------------------------------------
(* Dispatcher: handleEvent *)

\* errors && errors[reason]: the looked-up text, "" standing for every falsy
\* result (no map, no entry, or an entry holding the empty string)
ErrorText(errors, reason) ==
    IF errors.defined /\ reason \in DOMAIN errors.value
    THEN errors.value[reason] ELSE ""

HasErrorTextAlways(errors, reason) == TRUE

HasErrorText(errors, reason) == ErrorText(errors, reason) # ""

\* const reason = e instanceof Error ? e.message : e + ""
ReasonOf(e) == e.message

\* infoToFilterResults
infoToFilterResults(hs, info, event) ==
    filterHandlers(getHandlers(hs[event], info.handlerKeys),
                   info.isDirectMessage, info.roleNames, info.content)

\* infos.flatMap((i) => this.infoToFilterResults(i, event))
RECURSIVE FlatMapInfos(_, _, _)
FlatMapInfos(hs, infos, event) ==
    IF Len(infos) = 0 THEN <<>>
    ELSE infoToFilterResults(hs, Head(infos), event)
         \o FlatMapInfos(hs, Tail(infos), event)

Accepts(r) == r.accepted

isRejection(r) == ~r.accepted

AcceptedHiocsUnfiltered(filterResults) ==
    [n \in 1..Len(filterResults) |-> filterResults[n].handler]

AcceptedHiocs(filterResults) ==
    LET acc == SelectSeq(filterResults, Accepts)
    IN  [n \in 1..Len(acc) |-> acc[n].handler]

Rejections(filterResults) == SelectSeq(filterResults, isRejection)

IsConstructorNever(ioc) == FALSE

\* typeof instance === "function"
IsConstructor(ioc) == ioc.instance = 0

AlreadyCompletedNever(completedIocs, ioc) == FALSE

\* if (completedIocs.includes(ioc)) continue;   (accepted loop)
AlreadyCompleted(completedIocs, ioc) == Includes(completedIocs, ioc)

RejectionCompletedNever(completedIocs, ioc) == FALSE

\* if (completedIocs.includes(ioc)) continue;   (rejections loop)
RejectionCompleted(completedIocs, ioc) == Includes(completedIocs, ioc)

\* completedIocs.push(ioc) after a handler ran
PushCompleted(completedIocs, ioc) == Append(completedIocs, ioc)

PushRejectedForgotten(completedIocs, ioc) == completedIocs

\* completedIocs.push(ioc) after a rejection reply
PushRejected(completedIocs, ioc) == Append(completedIocs, ioc)

AcceptedLoopDoneAfterFirst(i, acceptedHiocs) == i > Len(acceptedHiocs) \/ i > 1

\* the for-of over acceptedHiocs is exhausted
AcceptedLoopDone(i, acceptedHiocs) == i > Len(acceptedHiocs)

SuspendedLocalsReread(st, hs) ==
    [st EXCEPT !.filterResults = FlatMapInfos(hs, st.args, st.event),
               !.acceptedHiocs = AcceptedHiocs(FlatMapInfos(hs, st.args, st.event))]

\* const filterResults, const acceptedHiocs: a handleEvent call that resumes
\* after an await has the locals it computed before its first await,
\* whatever the registries hs hold by then
SuspendedLocals(st, hs) == st

\* The locals of one handleEvent call (pc .. caught), the registry tree it
\* looked its candidates up in (tree), and the calls it has made so far:
\* constructed (new instance()), handled (instance.handle started), finished
\* (handle calls settled), thrown (what the failed ones threw), replies
\* (rejectWithError calls), captures (Sentry.captureException calls)
IdleDispatch ==
    [pc |-> "idle", event |-> "MESSAGE", args |-> <<>>,
     filterResults |-> <<>>, acceptedHiocs |-> <<>>, rejections |-> <<>>,
     completedIocs |-> <<>>, i |-> 1, j |-> 1,
     caught |-> [kind |-> "none", message |-> "", hasParams |-> FALSE],
     tree |-> EmptyTree,
     constructed |-> <<>>, handled |-> <<>>, finished |-> 0, thrown |-> <<>>,
     replies |-> <<>>, captures |-> <<>>]

\* The rejections loop from index st.j up to its next await or its end
RECURSIVE RunRejections(_)
RunRejections(st) ==
    IF st.j > Len(st.rejections) THEN [st EXCEPT !.pc = "done"]
    ELSE LET r == st.rejections[st.j] IN
         IF RejectionCompleted(st.completedIocs, r.handler.ioc)
         THEN RunRejections([st EXCEPT !.j = @ + 1])
         ELSE IF ~HasErrorText(r.handler.options.errors, r.reason)
         THEN RunRejections([st EXCEPT !.j = @ + 1])
         ELSE [st EXCEPT !.pc = "replyRejection",
                         !.replies = Append(@,
                             [text |-> ErrorText(r.handler.options.errors, r.reason),
                              hasParams |-> FALSE, cause |-> "rejection",
                              ioc |-> r.handler.ioc, n |-> st.j])]

RECURSIVE RunAccepted(_, _)

HandleNotAwaited(st, ctorOk) == RunAccepted([st EXCEPT !.i = @ + 1], ctorOk)

\* await instance.handle(...args): handleEvent is suspended until the call
\* settles
AwaitHandle(st, ctorOk) == [st EXCEPT !.pc = "handle"]

\* The accepted loop from index st.i up to its next await, then the
\* rejections loop; ctorOk tells whether new instance() returns or throws
RunAccepted(st, ctorOk) ==
    IF AcceptedLoopDone(st.i, st.acceptedHiocs)
    THEN RunRejections([st EXCEPT !.pc = "rejections",
                                  !.rejections = Rejections(st.filterResults),
                                  !.j = 1])
    ELSE LET h == st.acceptedHiocs[st.i] IN
         IF AlreadyCompleted(st.completedIocs, h.ioc)
         THEN RunAccepted([st EXCEPT !.i = @ + 1], ctorOk)
         ELSE IF IsConstructor(h.ioc) /\ ~ctorOk
         THEN [st EXCEPT !.pc = "threw",
                         !.constructed = Append(@, h.ioc)]
         ELSE AwaitHandle([st EXCEPT
                              !.constructed = IF IsConstructor(h.ioc)
                                              THEN Append(@, h.ioc) ELSE @,
                              !.handled = Append(@, [ioc |-> h.ioc, n |-> st.i])],
                          ctorOk)

----------------------------------------------------------------------------
(* The environment: decorated handler classes, events, handler outcomes *)

Options(event, keyPaths, stateful, location, allowedRoles, contentRegex, errors) ==
    [event |-> event, keyPaths |-> keyPaths, stateful |-> stateful,
     location |-> location, allowedRoles |-> allowedRoles,
     contentRegex |-> contentRegex, errors |-> errors]

\* The @Command(options) class declarations a program module may hold
Commands ==
    { [cls |-> "W",
       options |-> Options("MESSAGE", << <<"", "">> >>, FALSE, "ANYWHERE",
                           NoList, NoRegex, Present([m \in {"m1"} |-> "t1"]))],
      [cls |-> "W",
       options |-> Options("MESSAGE", << <<"c1", "p">> >>, FALSE, "SERVER",
                           Present(<<"mod">>), NoRegex,
                           Present([m \in {WRONG_LOCATION, MISSING_ROLE} |->
                                       IF m = MISSING_ROLE THEN "tr" ELSE "tw"]))],
      [cls |-> "X",
       options |-> Options("MESSAGE", << <<"c1", "p">>, <<"", "p">> >>, TRUE,
                           "SERVER", Present(<<"mod">>), NoRegex,
                           Present([m \in {WRONG_LOCATION, "m1"} |->
                                       IF m = "m1" THEN "" ELSE "tl"]))],
      [cls |-> "T",
       options |-> Options("TIMER", << <<"t">> >>, TRUE, "UNDEFINED",
                           Present(<<"mod">>), Present({}), NoMap)] }

\* What extractEventInfo derives from the raw arguments of an event
HandlerInfos(event) ==
    IF event = "MESSAGE"
    THEN [handlerKeys : {<<"c1", "p">>}, isDirectMessage : BOOLEAN,
          roleNames : {<<>>, <<"mod">>}, content : {Null}]
    ELSE [handlerKeys : {<<"t">>}, isDirectMessage : {FALSE},
          roleNames : {<<>>}, content : {Null}]

\* What a handle call may throw: an Error, an ErrorWithParams, or any value
Thrown ==
    { [kind |-> "Error", message |-> "m1", hasParams |-> FALSE],
      [kind |-> "ErrorWithParams", message |-> "m1", hasParams |-> TRUE],
      [kind |-> "Error", message |-> "m0", hasParams |-> FALSE],
      [kind |-> "value", message |-> "m1", hasParams |-> FALSE] }

DispatchIds == {1}

NoProbe == [fn |-> "none"]

\* private nameIdMap: Record<string, Snowflake> = {}
NoIds == [name \in {} |-> ""]

\* The locals of the initialize call (args: the registries passed to
\* registerApplicationCommands; returned: what that call resolved with) and
\* what it did: logged (the errors given to logger.error), rejected (what
\* initialize rejected with)
IdleStartup ==
    [pc |-> "idle", logged |-> <<>>, rejected |-> "none",
     args |-> <<>>, returned |-> <<>>]

\* The locals of the handleAutocomplete call (keys, focused, response) and the
\* calls it has made so far: warned (logger.warn), logged (logger.error),
\* responses (the argument of each interaction.respond call); callbackThrew
\* tells that option.autocomplete rejected, escaped what handleAutocomplete
\* itself rejected with
IdleAutocomplete ==
    [pc |-> "idle", keys |-> <<>>, focused |-> "", response |-> <<>>,
     warned |-> 0, logged |-> 0, responses |-> <<>>,
     callbackThrew |-> FALSE, escaped |-> "none"]

----------------------------------------------------------------------------
(* Actions *)

Init ==
    /\ handlers = [e \in Events |-> EmptyTree]
    /\ registered = 0
    /\ dispatch = [d \in DispatchIds |-> IdleDispatch]
    /\ probe = NoProbe
    /\ nameIdMap = NoIds
    /\ startup = IdleStartup
    /\ autocomplete = IdleAutocomplete

IocAlwaysInstance(c, n) == [cls |-> c.cls, instance |-> n]

\* const ioc = options.stateful ? new HandlerClass() : HandlerClass; the n-th
\* registration's instance is instance n, the class itself is instance 0
IocFor(c, n) ==
    IF c.options.stateful
    THEN [cls |-> c.cls, instance |-> n]
    ELSE [cls |-> c.cls, instance |-> 0]

\* addWithOptions(options, HandlerClass)
addWithOptions(c) ==
    /\ registered < MaxRegistrations
    /\ LET ioc == IocFor(c, registered + 1)
       IN  handlers' = [handlers EXCEPT
                           ![c.options.event] = addEventHandler(c.options, ioc, @)]
    /\ registered' = registered + 1
    /\ UNCHANGED <<dispatch, probe, nameIdMap, startup, autocomplete>>

\* handleEvent(event, ...args) up to its first await; each dispatch slot
\* carries one handleEvent call
handleEvent(d, event, args, ctorOk) ==
    /\ dispatch[d].pc = "idle"
    /\ LET filterResults == FlatMapInfos(handlers, args, event)
           st == [IdleDispatch EXCEPT
                     !.event = event, !.args = args, !.tree = handlers[event],
                     !.filterResults = filterResults,
                     !.acceptedHiocs = AcceptedHiocs(filterResults)]
       IN  dispatch' = [dispatch EXCEPT ![d] = RunAccepted(st, ctorOk)]
    /\ UNCHANGED <<handlers, registered, probe, nameIdMap, startup, autocomplete>>

\* await instance.handle(...args) resolves
handleReturns(d, ctorOk) ==
    /\ dispatch[d].pc = "handle"
    /\ LET st == SuspendedLocals(dispatch[d], handlers)
           ioc == st.acceptedHiocs[st.i].ioc
       IN  dispatch' = [dispatch EXCEPT ![d] =
               RunAccepted([st EXCEPT
                               !.finished = @ + 1,
                               !.completedIocs = PushCompleted(@, ioc),
                               !.i = @ + 1], ctorOk)]
    /\ UNCHANGED <<handlers, registered, probe, nameIdMap, startup, autocomplete>>

\* await instance.handle(...args) rejects with e: the catch block
handleThrows(d, e, ctorOk) ==
    /\ dispatch[d].pc = "handle"
    /\ LET st == SuspendedLocals(dispatch[d], handlers)
           h == st.acceptedHiocs[st.i]
           errors == h.options.errors
           reason == ReasonOf(e)
       IN  dispatch' = [dispatch EXCEPT ![d] =
               IF HasErrorText(errors, reason)
               THEN [st EXCEPT
                        !.finished = @ + 1,
                        !.caught = e,
                        !.thrown = Append(@, [n |-> st.i, e |-> e]),
                        !.pc = "replyError",
                        !.replies = Append(@,
                            [text |-> ErrorText(errors, reason),
                             hasParams |-> (e.kind = "ErrorWithParams"),
                             cause |-> "error", ioc |-> h.ioc, n |-> st.i])]
               ELSE RunAccepted([st EXCEPT
                        !.finished = @ + 1,
                        !.caught = e,
                        !.thrown = Append(@, [n |-> st.i, e |-> e]),
                        !.captures = Append(@, [ioc |-> h.ioc, n |-> st.i, e |-> e]),
                        !.completedIocs = PushCompleted(@, h.ioc),
                        !.i = @ + 1], ctorOk)]
    /\ UNCHANGED <<handlers, registered, probe, nameIdMap, startup, autocomplete>>

\* await rejectWithError(error, event, ...args) in the catch block resolves
replyErrorReturns(d, ctorOk) ==
    /\ dispatch[d].pc = "replyError"
    /\ LET st == SuspendedLocals(dispatch[d], handlers)
           ioc == st.acceptedHiocs[st.i].ioc
       IN  dispatch' = [dispatch EXCEPT ![d] =
               RunAccepted([st EXCEPT
                               !.completedIocs = PushCompleted(@, ioc),
                               !.i = @ + 1], ctorOk)]
    /\ UNCHANGED <<handlers, registered, probe, nameIdMap, startup, autocomplete>>

\* ... or rejects: nothing catches it, handleEvent rejects
replyErrorThrows(d) ==
    /\ dispatch[d].pc = "replyError"
    /\ dispatch' = [dispatch EXCEPT ![d].pc = "threw"]
    /\ UNCHANGED <<handlers, registered, probe, nameIdMap, startup, autocomplete>>

\* await rejectWithError(new Error(text), event, ...args) in the rejections
\* loop resolves
replyRejectionReturns(d) ==
    /\ dispatch[d].pc = "replyRejection"
    /\ LET st == SuspendedLocals(dispatch[d], handlers)
           ioc == st.rejections[st.j].handler.ioc
       IN  dispatch' = [dispatch EXCEPT ![d] =
               RunRejections([st EXCEPT
                                 !.completedIocs = PushRejected(@, ioc),
                                 !.j = @ + 1])]
    /\ UNCHANGED <<handlers, registered, probe, nameIdMap, startup, autocomplete>>

\* ... or rejects: handleEvent rejects
replyRejectionThrows(d) ==
    /\ dispatch[d].pc = "replyRejection"
    /\ dispatch' = [dispatch EXCEPT ![d].pc = "threw"]
    /\ UNCHANGED <<handlers, registered, probe, nameIdMap, startup, autocomplete>>

Next ==
    \/ \E c \in Commands : addWithOptions(c)
    \/ \E d \in DispatchIds, event \in DeliveredEvents, ctorOk \in BOOLEAN :
          \E args \in SeqsUpTo(HandlerInfos(event), MaxOccurrences) :
             handleEvent(d, event, args, ctorOk)
    \/ \E d \in DispatchIds, ctorOk \in BOOLEAN : handleReturns(d, ctorOk)
    \/ \E d \in DispatchIds, ctorOk \in BOOLEAN, e \in Thrown :
          handleThrows(d, e, ctorOk)
    \/ \E d \in DispatchIds, ctorOk \in BOOLEAN : replyErrorReturns(d, ctorOk)
    \/ \E d \in DispatchIds : replyErrorThrows(d)
    \/ \E d \in DispatchIds : replyRejectionReturns(d)
    \/ \E d \in DispatchIds : replyRejectionThrows(d)

Spec == Init /\ [][Next]_vars

----------------------------------------------------------------------------
(* Direct calls of filterHandlers *)

FilterOptions ==
    { Options(event, <<>>, FALSE, location, allowedRoles, contentRegex, NoMap) :
        event \in {"MESSAGE"}, location \in Locations,
        allowedRoles \in {NoList, Present(<<>>), Present(<<"vip", "mod">>)},
        contentRegex \in {NoRegex, Present({"ping"})} }
    \cup { Options("TIMER", <<>>, FALSE, "UNDEFINED", Present(<<"vip", "mod">>),
                   Present({"ping"}), NoMap) }

FilterCandidates ==
    { [ioc |-> [cls |-> "F", instance |-> 0], options |-> o] : o \in FilterOptions }

InitFilter ==
    /\ handlers = [e \in Events |-> EmptyTree]
    /\ registered = 0
    /\ dispatch = [d \in DispatchIds |-> IdleDispatch]
    /\ probe \in [fn : {"filterHandlers"},
                  handlers : SeqsUpTo(FilterCandidates, MaxCandidates),
                  isDirectMessage : BOOLEAN,
                  roleNames : {<<>>, <<"mod">>, <<"guest">>},
                  content : {Null, "ping", "pong"},
                  called : {FALSE}, result : {<<>>}]
    /\ nameIdMap = NoIds
    /\ startup = IdleStartup
    /\ autocomplete = IdleAutocomplete

callFilterHandlers ==
    /\ ~probe.called
    /\ probe' = [probe EXCEPT
                    !.called = TRUE,
                    !.result = filterHandlers(probe.handlers, probe.isDirectMessage,
                                              probe.roleNames, probe.content)]
    /\ UNCHANGED <<handlers, registered, dispatch, nameIdMap, startup, autocomplete>>

NextFilter == callFilterHandlers

SpecFilter == InitFilter /\ [][NextFilter]_vars

----------------------------------------------------------------------------
(* Direct calls of getHandlers *)

\* The keys a registry node is indexed with, and the segments of a key path
\* ("b" is a literal no node holds)
TreeKeys == {"", "a"}
LookupKeys == {"", "a", "b"}

\* The registry trees of at most n levels below the node at path prefix;
\* every terminal holds two descriptors, each naming its terminal and slot
RECURSIVE TreesBelow(_, _)
TreesBelow(prefix, n) ==
    LET leaf == HIOCArray(<< [path |-> prefix, slot |-> 1],
                             [path |-> prefix, slot |-> 2] >>)
    IN  IF n = 0 THEN {leaf}
        ELSE {leaf} \cup
             UNION { { [kind |-> "map", hiocs |-> <<>>, children |-> f] :
                         f \in {g \in [K -> UNION {TreesBelow(Append(prefix, k), n - 1) :
                                                      k \in K}] :
                                   \A k \in K :
                                      g[k] \in TreesBelow(Append(prefix, k), n - 1)} } :
                     K \in SUBSET TreeKeys }

InitLookup ==
    /\ handlers = [e \in Events |-> EmptyTree]
    /\ registered = 0
    /\ dispatch = [d \in DispatchIds |-> IdleDispatch]
    /\ probe \in [fn : {"getHandlers"},
                  tree : TreesBelow(<<>>, MaxDepth),
                  keys : SeqsUpTo(LookupKeys, MaxDepth + 1),
                  called : {FALSE}, result : {<<>>}]
    /\ nameIdMap = NoIds
    /\ startup = IdleStartup
    /\ autocomplete = IdleAutocomplete

callGetHandlers ==
    /\ ~probe.called
    /\ probe' = [probe EXCEPT
                    !.called = TRUE,
                    !.result = getHandlers(probe.tree, probe.keys)]
    /\ UNCHANGED <<handlers, registered, dispatch, nameIdMap, startup, autocomplete>>

NextLookup == callGetHandlers

SpecLookup == InitLookup /\ [][NextLookup]_vars

----------------------------------------------------------------------------
(* Autocomplete routing: handleAutocomplete *)

\* Slash-command options: the handler options plus the option definitions
SlashOptions(keyPaths, location, errors, options) ==
    [event |-> "SLASH_COMMAND", keyPaths |-> keyPaths, stateful |-> FALSE,
     location |-> location, allowedRoles |-> NoList, contentRegex |-> NoRegex,
     errors |-> errors, options |-> options]

\* The slash-command classes a program module may hold
SlashCommands ==
    { [cls |-> "A",
       options |-> SlashOptions(<< <<"abc123", "", "ping">> >>, "SERVER", NoMap,
                                Present(<< [name |-> "q", autocomplete |-> TRUE],
                                           [name |-> "r", autocomplete |-> FALSE] >>))],
      [cls |-> "A",
       options |-> SlashOptions(<< <<"abc123", "", "ping">> >>, "SERVER",
                                Present([m \in {WRONG_LOCATION} |-> "tw"]),
                                Present(<< [name |-> "r", autocomplete |-> TRUE] >>))],
      [cls |-> "B",
       options |-> SlashOptions(<< <<"abc123", "", "">> >>, "ANYWHERE",
                                Present([m \in {"m1"} |-> "t1"]), NoList)] }

\* An AutocompleteInteraction: the command id, getSubcommandGroup(false),
\* getSubcommand(false) (Null when absent) and the focused option's name
AutocompleteInteractions ==
    [commandId : {"abc123", "zzz"}, subcommandGroup : {Null},
     subcommand : {Null, "ping"}, focusedName : {"q", "r", "x"}]

\* What an autocomplete callback may resolve with
Suggestions == {<<"s1">>}

\* v ?? ""
OrEmpty(v) == IF v = Null THEN "" ELSE v

\* options.options?.find((o) => o.name === focusedOptionName): the index of
\* the first such option, 0 for undefined
FindOption(options, name) ==
    IF ~options.defined THEN 0
    ELSE LET hits == {n \in 1..Len(options.value) : options.value[n].name = name}
         IN  IF hits = {} THEN 0
             ELSE CHOOSE n \in hits : \A m \in hits : n <= m

\* !maybeAutocompleteOption || !("autocomplete" in ...) || !....autocomplete
LacksAutocomplete(options, name) ==
    \/ FindOption(options, name) = 0
    \/ ~options.value[FindOption(options, name)].autocomplete

AutocompleteRethrows(a, source) ==
    [a EXCEPT !.pc = "threw", !.escaped = source]

\* catch (e) { logger.error(...); await interaction.respond([]); }
AutocompleteCatch(a, source) ==
    [a EXCEPT !.logged = @ + 1, !.responses = Append(@, <<>>),
              !.pc = "respondEmpty"]

\* handleAutocomplete(interaction) up to its first await or its return
handleAutocomplete(interaction) ==
    /\ autocomplete.pc = "idle"
    /\ LET slashCommandHandlerKeys ==
               <<interaction.commandId, OrEmpty(interaction.subcommandGroup),
                 OrEmpty(interaction.subcommand)>>
           handler == getHandlers(handlers["SLASH_COMMAND"], slashCommandHandlerKeys)
           a == [autocomplete EXCEPT !.keys = slashCommandHandlerKeys,
                                     !.focused = interaction.focusedName]
       IN  autocomplete' =
               IF Len(handler) = 0
               THEN [a EXCEPT !.warned = @ + 1, !.pc = "returned"]
               ELSE IF LacksAutocomplete(handler[1].options.options,
                                         interaction.focusedName)
               THEN [a EXCEPT !.warned = @ + 1, !.pc = "returned"]
               ELSE [a EXCEPT !.pc = "callback"]
    /\ UNCHANGED <<handlers, registered, dispatch, probe, nameIdMap, startup>>

\* await maybeAutocompleteOption.autocomplete(...) resolves: respond(response)
autocompleteReturns(response) ==
    /\ autocomplete.pc = "callback"
    /\ autocomplete' = [autocomplete EXCEPT !.response = response,
                                            !.responses = Append(@, response),
                                            !.pc = "respond"]
    /\ UNCHANGED <<handlers, registered, dispatch, probe, nameIdMap, startup>>

\* ... or rejects: the catch block
autocompleteThrows ==
    /\ autocomplete.pc = "callback"
    /\ autocomplete' = AutocompleteCatch([autocomplete EXCEPT !.callbackThrew = TRUE],
                                         "callback")
    /\ UNCHANGED <<handlers, registered, dispatch, probe, nameIdMap, startup>>

\* await interaction.respond(response) resolves
respondReturns ==
    /\ autocomplete.pc = "respond"
    /\ autocomplete' = [autocomplete EXCEPT !.pc = "returned"]
    /\ UNCHANGED <<handlers, registered, dispatch, probe, nameIdMap, startup>>

\* ... or rejects, inside the try: the catch block
respondThrows ==
    /\ autocomplete.pc = "respond"
    /\ autocomplete' = AutocompleteCatch(autocomplete, "respond")
    /\ UNCHANGED <<handlers, registered, dispatch, probe, nameIdMap, startup>>

\* await interaction.respond([]) in the catch block resolves
respondEmptyReturns ==
    /\ autocomplete.pc = "respondEmpty"
    /\ autocomplete' = [autocomplete EXCEPT !.pc = "returned"]
    /\ UNCHANGED <<handlers, registered, dispatch, probe, nameIdMap, startup>>

\* ... or rejects: nothing catches it, handleAutocomplete rejects with it
respondEmptyThrows ==
    /\ autocomplete.pc = "respondEmpty"
    /\ autocomplete' = AutocompleteRethrows(autocomplete, "respond")
    /\ UNCHANGED <<handlers, registered, dispatch, probe, nameIdMap, startup>>

NextAutocomplete ==
    \/ \E c \in SlashCommands : addWithOptions(c)
    \/ \E interaction \in AutocompleteInteractions : handleAutocomplete(interaction)
    \/ \E response \in Suggestions : autocompleteReturns(response)
    \/ autocompleteThrows
    \/ respondReturns
    \/ respondThrows
    \/ respondEmptyReturns
    \/ respondEmptyThrows

SpecAutocomplete == Init /\ [][NextAutocomplete]_vars

----------------------------------------------------------------------------
(* Slash-command dispatch *)

\* What extractEventInfo derives from a chat-input command interaction
SlashInfos ==
    [handlerKeys : {<<"abc123", "", "ping">>}, isDirectMessage : BOOLEAN,
     roleNames : {<<>>}, content : {Null}]

NextSlash ==
    \/ \E c \in SlashCommands : addWithOptions(c)
    \/ \E d \in DispatchIds, ctorOk \in BOOLEAN :
          \E args \in SeqsUpTo(SlashInfos, 1) :
             handleEvent(d, "SLASH_COMMAND", args, ctorOk)
    \/ \E d \in DispatchIds, ctorOk \in BOOLEAN : handleReturns(d, ctorOk)
    \/ \E d \in DispatchIds, ctorOk \in BOOLEAN, e \in Thrown :
          handleThrows(d, e, ctorOk)
    \/ \E d \in DispatchIds, ctorOk \in BOOLEAN : replyErrorReturns(d, ctorOk)
    \/ \E d \in DispatchIds : replyErrorThrows(d)
    \/ \E d \in DispatchIds : replyRejectionReturns(d)
    \/ \E d \in DispatchIds : replyRejectionThrows(d)

SpecSlash == Init /\ [][NextSlash]_vars

----------------------------------------------------------------------------
(* Several handleEvent calls in flight *)

ConcurrentIds == {1, 2}

\* The message handler classes
ConcurrentCommands == {c \in Commands : c.options.event = "MESSAGE"}

ConcurrentInfos ==
    {i \in HandlerInfos("MESSAGE") : i.roleNames = <<"mod">>}

ConcurrentThrown == {e \in Thrown : e.kind = "Error" /\ e.message = "m1"}

InitConcurrent ==
    /\ handlers = [e \in Events |-> EmptyTree]
    /\ registered = 0
    /\ dispatch = [d \in ConcurrentIds |-> IdleDispatch]
    /\ probe = NoProbe
    /\ nameIdMap = NoIds
    /\ startup = IdleStartup
    /\ autocomplete = IdleAutocomplete

\* The steps that resume dispatch d after one of its awaits settled
Settle(d) ==
    \/ \E ctorOk \in BOOLEAN : handleReturns(d, ctorOk)
    \/ \E ctorOk \in BOOLEAN, e \in ConcurrentThrown : handleThrows(d, e, ctorOk)
    \/ \E ctorOk \in BOOLEAN : replyErrorReturns(d, ctorOk)
    \/ replyErrorThrows(d)
    \/ replyRejectionReturns(d)
    \/ replyRejectionThrows(d)

NextConcurrent ==
    \/ \E c \in ConcurrentCommands : addWithOptions(c)
    \/ \E d \in ConcurrentIds, ctorOk \in BOOLEAN :
          \E args \in SeqsUpTo(ConcurrentInfos, 1) :
             handleEvent(d, "MESSAGE", args, ctorOk)
    \/ \E d \in ConcurrentIds : Settle(d)

\* Every await of dispatch 2 settles and the event loop resumes it; the
\* awaits of dispatch 1 may stay pending for ever
SpecConcurrent ==
    InitConcurrent /\ [][NextConcurrent]_vars /\ WF_vars(Settle(2))

----------------------------------------------------------------------------
(* Startup: initialize, and the lookup getIdForCommandName *)

Undefined == "<undefined>"

\* The ids the platform assigns to the command names
CommandIds == [name \in {"ping", "report", "whois"} |->
                  CASE name = "ping" -> "abc123"
                    [] name = "report" -> "def456"
                    [] OTHER -> "ghi789"]

\* The classes the program modules hold: a slash command, a context-menu
\* command on messages, one on users, and a message handler
StartupCommands ==
    { [cls |-> "A",
       options |-> Options("SLASH_COMMAND", << <<"ping", "", "">> >>, FALSE,
                           "SERVER", NoList, NoRegex, NoMap)],
      [cls |-> "M",
       options |-> Options("CONTEXT_MENU_MESSAGE", << <<"report">> >>, FALSE,
                           "UNDEFINED", NoList, NoRegex, NoMap)],
      [cls |-> "U",
       options |-> Options("CONTEXT_MENU_USER", << <<"whois">> >>, TRUE,
                           "UNDEFINED", NoList, NoRegex, NoMap)],
      [cls |-> "W",
       options |-> Options("MESSAGE", << <<"", "">> >>, FALSE, "ANYWHERE",
                           NoList, NoRegex, NoMap)] }

\* What import() or registerApplicationCommands may reject with
StartupErrors == {"eLoad", "eSync"}

\* The names the lookup is asked for
LookupNames == {"ping", "report", "nope"}

\* registerApplicationCommands rewrites a registry: the first key of every
\* path becomes the id assigned to that command name
RewriteTree(tree) ==
    [kind |-> "map", hiocs |-> <<>>,
     children |-> [id \in {CommandIds[k] : k \in DOMAIN tree.children} |->
                      tree.children[CHOOSE k \in DOMAIN tree.children :
                                       CommandIds[k] = id]]]

\* registerApplicationCommands(slash, message, user): the rewritten
\* registries and, unless the call leaves it out, the name-to-id map
registerApplicationCommands(slash, message, user, withMap) ==
    [slashCommandTree |-> RewriteTree(slash),
     messageTree |-> RewriteTree(message),
     userTree |-> RewriteTree(user),
     nameIdMap |-> IF withMap
                   THEN Present([k \in DOMAIN slash.children \cup
                                       DOMAIN message.children \cup
                                       DOMAIN user.children |-> CommandIds[k]])
                   ELSE [defined |-> FALSE, value |-> NoIds]]

ReplaceRegistriesSwapped(hs, result) ==
    [hs EXCEPT !["SLASH_COMMAND"] = result.slashCommandTree,
               !["CONTEXT_MENU_MESSAGE"] = result.userTree,
               !["CONTEXT_MENU_USER"] = result.messageTree]

\* this.handlers[SLASH_COMMAND] = slashCommandTree; ...[CONTEXT_MENU_MESSAGE] =
\* messageTree; ...[CONTEXT_MENU_USER] = userTree
ReplaceRegistries(hs, result) ==
    [hs EXCEPT !["SLASH_COMMAND"] = result.slashCommandTree,
               !["CONTEXT_MENU_MESSAGE"] = result.messageTree,
               !["CONTEXT_MENU_USER"] = result.userTree]

\* nameIdMap ?? {}
MapOrEmpty(m) == IF m.defined THEN m.value ELSE NoIds

LoadFailureNotLogged(s, e) ==
    [s EXCEPT !.rejected = e, !.pc = "rejected"]

\* catch (e) { logger.error("Error loading commands: ", e); throw e; }
LoadFailure(s, e) ==
    [s EXCEPT !.logged = Append(@, e), !.rejected = e, !.pc = "rejected"]

\* this.nameIdMap[commandName]
getIdForCommandName(ids, commandName) ==
    IF commandName \in DOMAIN ids THEN ids[commandName] ELSE Undefined

\* initialize() up to await glob(...)
initialize ==
    /\ startup.pc = "idle"
    /\ startup' = [startup EXCEPT !.pc = "glob"]
    /\ UNCHANGED <<handlers, registered, dispatch, probe, nameIdMap, autocomplete>>

\* await glob(...) resolves: the imports are started, up to
\* await Promise.all(loaders)
globReturns ==
    /\ startup.pc = "glob"
    /\ startup' = [startup EXCEPT !.pc = "loading"]
    /\ UNCHANGED <<handlers, registered, dispatch, probe, nameIdMap, autocomplete>>

\* ... or rejects: outside the try, initialize rejects with it
globThrows(e) ==
    /\ startup.pc = "glob"
    /\ startup' = [startup EXCEPT !.rejected = e, !.pc = "rejected"]
    /\ UNCHANGED <<handlers, registered, dispatch, probe, nameIdMap, autocomplete>>

\* await Promise.all(loaders) resolves: registerApplicationCommands is called
\* with the three registries as they are now
loadersResolve ==
    /\ startup.pc = "loading"
    /\ startup' = [startup EXCEPT
                      !.pc = "syncing",
                      !.args = <<handlers["SLASH_COMMAND"],
                                 handlers["CONTEXT_MENU_MESSAGE"],
                                 handlers["CONTEXT_MENU_USER"]>>]
    /\ UNCHANGED <<handlers, registered, dispatch, probe, nameIdMap, autocomplete>>

\* ... or rejects with e: the catch block
loadersReject(e) ==
    /\ startup.pc = "loading"
    /\ startup' = LoadFailure(startup, e)
    /\ UNCHANGED <<handlers, registered, dispatch, probe, nameIdMap, autocomplete>>

\* await registerApplicationCommands(...) resolves: the four assignments
syncResolves(withMap) ==
    /\ startup.pc = "syncing"
    /\ LET result == registerApplicationCommands(startup.args[1], startup.args[2],
                                                 startup.args[3], withMap)
       IN  /\ nameIdMap' = MapOrEmpty(result.nameIdMap)
           /\ handlers' = ReplaceRegistries(handlers, result)
           /\ startup' = [startup EXCEPT !.returned = result, !.pc = "done"]
    /\ UNCHANGED <<registered, dispatch, probe, autocomplete>>

\* ... or rejects with e: nothing catches it, initialize rejects with it
syncRejects(e) ==
    /\ startup.pc = "syncing"
    /\ startup' = [startup EXCEPT !.rejected = e, !.pc = "rejected"]
    /\ UNCHANGED <<handlers, registered, dispatch, probe, nameIdMap, autocomplete>>

\* a call of getIdForCommandName(commandName); completed tells whether
\* initialize had completed by then
callGetIdForCommandName(commandName) ==
    /\ probe' = [fn |-> "getIdForCommandName", name |-> commandName,
                 completed |-> (startup.pc = "done"),
                 result |-> getIdForCommandName(nameIdMap, commandName)]
    /\ UNCHANGED <<handlers, registered, dispatch, nameIdMap, startup, autocomplete>>

NextStartup ==
    \/ \E c \in StartupCommands : addWithOptions(c)
    \/ initialize
    \/ globReturns
    \/ \E e \in StartupErrors : globThrows(e)
    \/ loadersResolve
    \/ \E e \in StartupErrors : loadersReject(e)
    \/ \E withMap \in BOOLEAN : syncResolves(withMap)
    \/ \E e \in StartupErrors : syncRejects(e)
    \/ \E commandName \in LookupNames : callGetIdForCommandName(commandName)

SpecStartup == Init /\ [][NextStartup]_vars

----------------------------------------------------------------------------
(* A dispatch while the registries change: registration and initialize *)

\* Slash-command classes registered under their command name
RuntimeCommands ==
    { [cls |-> "A",
       options |-> Options("SLASH_COMMAND", << <<"ping", "", "">> >>, FALSE,
                           "SERVER", NoList, NoRegex,
                           Present([m \in {WRONG_LOCATION} |-> "tw"]))],
      [cls |-> "B",
       options |-> Options("SLASH_COMMAND", << <<"ping", "", "">> >>, TRUE,
                           "ANYWHERE", NoList, NoRegex,
                           Present([m \in {"m1"} |-> "t1"]))] }

\* Occurrences keyed by the command name and by the command id
RuntimeInfos ==
    [handlerKeys : {<<"ping", "", "">>, <<"abc123", "", "">>},
     isDirectMessage : BOOLEAN, roleNames : {<<>>}, content : {Null}]

NextRuntime ==
    \/ \E c \in RuntimeCommands : addWithOptions(c)
    \/ \E d \in DispatchIds, ctorOk \in BOOLEAN :
          \E args \in SeqsUpTo(RuntimeInfos, 1) :
             handleEvent(d, "SLASH_COMMAND", args, ctorOk)
    \/ \E d \in DispatchIds, ctorOk \in BOOLEAN : handleReturns(d, ctorOk)
    \/ \E d \in DispatchIds, ctorOk \in BOOLEAN, e \in ConcurrentThrown :
          handleThrows(d, e, ctorOk)
    \/ \E d \in DispatchIds, ctorOk \in BOOLEAN : replyErrorReturns(d, ctorOk)
    \/ \E d \in DispatchIds : replyErrorThrows(d)
    \/ \E d \in DispatchIds : replyRejectionReturns(d)
    \/ \E d \in DispatchIds : replyRejectionThrows(d)
    \/ initialize
    \/ globReturns
    \/ \E e \in StartupErrors : globThrows(e)
    \/ loadersResolve
    \/ \E e \in StartupErrors : loadersReject(e)
    \/ \E withMap \in BOOLEAN : syncResolves(withMap)
    \/ \E e \in StartupErrors : syncRejects(e)

SpecRuntime == Init /\ [][NextRuntime]_vars

----------------------------------------------------------------------------
(* Properties of one dispatch *)

D == dispatch[1]

Ended == D.pc \in {"done", "threw"}

\* how many handle calls the dispatch has started on identity ioc
HandleCount(ioc) == Cardinality({k \in 1..Len(D.handled) : D.handled[k].ioc = ioc})

SomeHandleThrew == Len(D.thrown) > 0

\* every new instance() of the dispatch returned (its handle call followed)
NoConstructorThrew ==
    Len(D.constructed) =
        Cardinality({k \in 1..Len(D.handled) : IsConstructor(D.handled[k].ioc)})

\* the error-message map holds an entry for key
HasEntry(errors, key) == errors.defined /\ key \in DOMAIN errors.value

\* the error-message map holds a non-empty text for key
HasNonEmptyEntry(errors, key) == HasEntry(errors, key) /\ errors.value[key] # ""

ErrorReplies(n) ==
    {k \in 1..Len(D.replies) : D.replies[k].cause = "error" /\ D.replies[k].n = n}

Captures(n) == {k \in 1..Len(D.captures) : D.captures[k].n = n}

\* C1: in one dispatch no handler identity has handle invoked more than once,
\* however often it is a candidate and whether or not its invocation failed.
C1_AtMostOncePerIdentity ==
    \A a, b \in 1..Len(D.handled) :
        D.handled[a].ioc = D.handled[b].ioc => a = b

\* an identity accepted at two places whose first invocation failed, both
\* places passed by the loop
C1_Witness ==
    \E a, b \in 1..Len(D.acceptedHiocs) :
        /\ a < b
        /\ D.acceptedHiocs[a].ioc = D.acceptedHiocs[b].ioc
        /\ D.i > b
        /\ \E k \in 1..Len(D.thrown) : D.thrown[k].n = a
        /\ HandleCount(D.acceptedHiocs[a].ioc) = 1

\* C2: once a handle call has failed (mapped or unmapped message), the
\* dispatch does not end before every accepted handler identity was invoked
\* (all handler instances having been constructed without failure).
C2_LaterHandlersStillInvoked ==
    (Ended /\ SomeHandleThrew /\ NoConstructorThrew) =>
        \A n \in 1..Len(D.acceptedHiocs) : HandleCount(D.acceptedHiocs[n].ioc) >= 1

\* C3: no failure inside a dispatch escapes handleEvent.
C3_NoFailureEscapes == D.pc # "threw"

\* C4 as stated: a failure whose message has an entry in the map gets exactly
\* one reply with the mapped text and no telemetry capture; any other failure
\* gets no reply and exactly one capture.
C4_EntryDecidesReplyOrCapture ==
    \A k \in 1..Len(D.thrown) :
        LET n == D.thrown[k].n
            errors == D.acceptedHiocs[n].options.errors
            m == D.thrown[k].e.message
        IN  IF HasEntry(errors, m)
            THEN /\ Cardinality(ErrorReplies(n)) = 1
                 /\ \A r \in ErrorReplies(n) : D.replies[r].text = errors.value[m]
                 /\ Captures(n) = {}
            ELSE /\ ErrorReplies(n) = {}
                 /\ Cardinality(Captures(n)) = 1

\* C4 amended: the reply is sent when the map holds a non-empty text for the
\* message; with no map, no entry or an empty text there is no reply and
\* exactly one telemetry capture.
C4_NonEmptyEntryDecidesReplyOrCapture ==
    \A k \in 1..Len(D.thrown) :
        LET n == D.thrown[k].n
            errors == D.acceptedHiocs[n].options.errors
            m == D.thrown[k].e.message
        IN  IF HasNonEmptyEntry(errors, m)
            THEN /\ Cardinality(ErrorReplies(n)) = 1
                 /\ \A r \in ErrorReplies(n) : D.replies[r].text = errors.value[m]
                 /\ Captures(n) = {}
            ELSE /\ ErrorReplies(n) = {}
                 /\ Cardinality(Captures(n)) = 1

\* an ended dispatch in which one handler failed with a mapped message and
\* another with the message whose entry is the empty text
C4_Witness ==
    /\ Ended
    /\ \E k \in 1..Len(D.thrown) :
          HasNonEmptyEntry(D.acceptedHiocs[D.thrown[k].n].options.errors,
                           D.thrown[k].e.message)
    /\ \E k \in 1..Len(D.thrown) :
          LET errors == D.acceptedHiocs[D.thrown[k].n].options.errors
              m == D.thrown[k].e.message
          IN  HasEntry(errors, m) /\ ~HasNonEmptyEntry(errors, m)

\* h is registered under wildcard key paths only
IsWildcardHandler(h) ==
    \A p \in 1..Len(h.options.keyPaths) : h.options.keyPaths[p][1] = ""

\* h is registered under the very key path of an occurrence
IsExactHandlerFor(h, args) ==
    \E p \in 1..Len(h.options.keyPaths), o \in 1..Len(args) :
        h.options.keyPaths[p] = args[o].handlerKeys

\* C6: a wildcard-path handler and an exact-path handler of the same event
\* kind, both accepted for the occurrence, are each invoked exactly once by
\* the dispatch (all handler instances having been constructed without failure).
C6_WildcardAndExactEachOnce ==
    (Ended /\ NoConstructorThrew) =>
        \A a, b \in 1..Len(D.acceptedHiocs) :
            LET h1 == D.acceptedHiocs[a]
                h2 == D.acceptedHiocs[b]
            IN  (/\ IsWildcardHandler(h1)
                 /\ IsExactHandlerFor(h2, D.args)
                 /\ h1.ioc # h2.ioc)
                => HandleCount(h1.ioc) = 1 /\ HandleCount(h2.ioc) = 1

\* the rejected Filter Results, as the dispatch derives them
Rejected == Rejections(D.filterResults)

RejectionReplies(n) ==
    {k \in 1..Len(D.replies) : D.replies[k].cause = "rejection" /\ D.replies[k].n = n}

RejectedEverywhere(ioc) ==
    \A n \in 1..Len(D.filterResults) :
        D.filterResults[n].handler.ioc = ioc => ~D.filterResults[n].accepted

\* C7: a handler identity rejected under every occurrence never has handle
\* called, and a rejection of it whose reason has no entry in the map brings no
\* reply; no telemetry capture is made for it.
C7_RejectedNeverRunsSilentWithoutEntry ==
    \A n \in 1..Len(Rejected) :
        LET r == Rejected[n] IN
        RejectedEverywhere(r.handler.ioc) =>
            /\ HandleCount(r.handler.ioc) = 0
            /\ \A k \in 1..Len(D.captures) : D.captures[k].ioc # r.handler.ioc
            /\ ~HasEntry(r.handler.options.errors, r.reason) => RejectionReplies(n) = {}

\* a completed dispatch that rejected a handler for a reason it has no entry for
C7_Witness ==
    /\ D.pc = "done"
    /\ Len(D.handled) > 0
    /\ \E n \in 1..Len(Rejected) :
          /\ RejectedEverywhere(Rejected[n].handler.ioc)
          /\ Rejected[n].reason = MISSING_ROLE
          /\ ~HasEntry(Rejected[n].handler.options.errors, Rejected[n].reason)

Executed(ioc) == HandleCount(ioc) > 0

DueReply ==
    {n \in 1..Len(Rejected) :
        /\ ~Executed(Rejected[n].handler.ioc)
        /\ HasNonEmptyEntry(Rejected[n].handler.options.errors, Rejected[n].reason)
        /\ \A m \in 1..(n - 1) :
              ~(/\ Rejected[m].handler.ioc = Rejected[n].handler.ioc
                /\ HasNonEmptyEntry(Rejected[m].handler.options.errors,
                                    Rejected[m].reason))}

RejectionReplySeq == SelectSeq(D.replies, LAMBDA r : r.cause = "rejection")

C9_RejectionRepliesAfterHandlers ==
    (Len(RejectionReplySeq) > 0) =>
        /\ D.pc \notin {"handle", "replyError"}
        /\ D.finished = Len(D.handled)
        /\ \A n \in 1..Len(D.acceptedHiocs) : Executed(D.acceptedHiocs[n].ioc)

\* a rejection reply emitted by a dispatch that ran an accepted handler
\* which failed and was replied for
C9_Witness ==
    /\ Len(RejectionReplySeq) > 0
    /\ Len(D.handled) > 0
    /\ \E k \in 1..Len(D.replies) : D.replies[k].cause = "error"

RECURSIVE RefWalk(_, _, _)
RefWalk(tree, keys, exactFirst) ==
    IF tree.kind = "undefined" THEN <<>>
    ELSE IF tree.kind = "array" THEN tree.hiocs
    ELSE LET key == IF keys = <<>> THEN "" ELSE keys[1]
             rest == IF keys = <<>> THEN <<>> ELSE SubSeq(keys, 2, Len(keys))
             wildcard == RefWalk(Child(tree, ""), rest, exactFirst)
             exact == IF key = "" THEN <<>> ELSE RefWalk(Child(tree, key), rest, exactFirst)
         IN  IF exactFirst THEN exact \o wildcard ELSE wildcard \o exact

\* the identities accepted for the occurrences o.. of the dispatch, in
\* occurrence order and, within an occurrence, in the order of the walk
RECURSIVE RefAcceptedIocs(_, _)
RefAcceptedIocs(o, exactFirst) ==
    IF o > Len(D.args) THEN <<>>
    ELSE LET info == D.args[o]
             results == filterHandlers(RefWalk(D.tree, info.handlerKeys, exactFirst),
                                       info.isDirectMessage, info.roleNames, info.content)
             acc == SelectSeq(results, LAMBDA r : r.accepted)
         IN  [n \in 1..Len(acc) |-> acc[n].handler.ioc]
             \o RefAcceptedIocs(o + 1, exactFirst)

\* seq without the repetitions of its elements
RECURSIVE FirstOccurrences(_)
FirstOccurrences(seq) ==
    IF seq = <<>> THEN <<>>
    ELSE LET init == FirstOccurrences(SubSeq(seq, 1, Len(seq) - 1))
             last == seq[Len(seq)]
         IN  IF Includes(init, last) THEN init ELSE Append(init, last)

IsPrefix(s, t) == Len(s) <= Len(t) /\ s = SubSeq(t, 1, Len(s))

HandledIocs == [k \in 1..Len(D.handled) |-> D.handled[k].ioc]

\* C10 as stated: handlers are invoked in occurrence order and, within an
\* occurrence, exact-match subtree before wildcard subtree at each level.
C10_InvokedExactBeforeWildcard ==
    IsPrefix(HandledIocs, FirstOccurrences(RefAcceptedIocs(1, TRUE)))

\* C10 amended: handlers are invoked in occurrence order and, within an
\* occurrence, wildcard subtree before exact-match subtree at each level.
C10_InvokedWildcardBeforeExact ==
    IsPrefix(HandledIocs, FirstOccurrences(RefAcceptedIocs(1, FALSE)))

\* a dispatch that invoked a wildcard-path handler and then an exact-path one
C10_Witness ==
    /\ Len(D.handled) > 1
    /\ IsWildcardHandler(D.acceptedHiocs[D.handled[1].n])
    /\ IsExactHandlerFor(D.acceptedHiocs[D.handled[2].n], D.args)

----------------------------------------------------------------------------
(* Properties of filterHandlers *)

RoleSet(seq) == {seq[n] : n \in 1..Len(seq)}

RefLocationOk(h, isDirectMessage) ==
    \/ ~isMessageRelated(h.options)
    \/ h.options.location = "ANYWHERE"
    \/ h.options.location = "DIRECT_MESSAGE" /\ isDirectMessage
    \/ h.options.location = "SERVER" /\ ~isDirectMessage

RefRoleOk(h, roleNames) ==
    \/ ~isMessageRelated(h.options)
    \/ ~h.options.allowedRoles.defined
    \/ h.options.allowedRoles.value = <<>>
    \/ RoleSet(h.options.allowedRoles.value) \cap RoleSet(roleNames) # {}

RefContentOk(h, content) ==
    \/ ~isMessageRelated(h.options)
    \/ ~h.options.contentRegex.defined
    \/ content # Null /\ content \in h.options.contentRegex.value

RefFilterResult(h, isDirectMessage, roleNames, content) ==
    IF ~RefLocationOk(h, isDirectMessage)
    THEN [handler |-> h, accepted |-> FALSE, reason |-> WRONG_LOCATION]
    ELSE IF ~RefRoleOk(h, roleNames)
    THEN [handler |-> h, accepted |-> FALSE, reason |-> MISSING_ROLE]
    ELSE IF ~RefContentOk(h, content)
    THEN [handler |-> h, accepted |-> FALSE, reason |-> DOESNT_MATCH_REGEX]
    ELSE [handler |-> h, accepted |-> TRUE, reason |-> "NONE"]

\* C5: filterHandlers returns one Filter Result per candidate, in input
\* order, each the first failing stage in the order location, role, content
\* (accepted when none fails).
C5_FilterMatchesReference ==
    probe.called =>
        /\ Len(probe.result) = Len(probe.handlers)
        /\ \A n \in 1..Len(probe.handlers) :
              probe.result[n] = RefFilterResult(probe.handlers[n], probe.isDirectMessage,
                                                probe.roleNames, probe.content)

\* a call whose candidate violates both location and role and is reported
\* with the location reason
C5_Witness ==
    /\ probe.called
    /\ \E n \in 1..Len(probe.handlers) :
          /\ ~RefLocationOk(probe.handlers[n], probe.isDirectMessage)
          /\ ~RefRoleOk(probe.handlers[n], probe.roleNames)
          /\ probe.result[n].reason = WRONG_LOCATION

----------------------------------------------------------------------------
(* Properties of handleAutocomplete *)

\* C11: when the autocomplete callback rejects, handleAutocomplete answers
\* the platform with the empty suggestion list (its one respond call) and
\* does not reject with the callback's error.
C11_CallbackFailureAnsweredEmpty ==
    autocomplete.callbackThrew =>
        /\ autocomplete.responses = << <<>> >>
        /\ autocomplete.escaped # "callback"

\* the callback rejected and handleAutocomplete has returned
C11_Witness ==
    /\ autocomplete.callbackThrew
    /\ autocomplete.pc = "returned"

\* handleAutocomplete returned on a routing miss (it warned)
RoutingMiss == autocomplete.pc = "returned" /\ autocomplete.warned > 0

\* C12: an autocomplete request that is a routing miss is answered with the
\* empty suggestion list.
C12_RoutingMissAnsweredEmpty ==
    RoutingMiss => autocomplete.responses = << <<>> >>

----------------------------------------------------------------------------
(* Properties of the awaits of one dispatch *)

\* handle calls started and not yet settled
InFlight == Len(D.handled) - D.finished

\* C13: within one dispatch at most one handle call is in flight, it is the
\* one the accepted loop stands at, and while the reply for a mapped failure
\* is pending no handle call is in flight and none was started after the
\* failed one.
C13_OneInvocationInFlight ==
    /\ InFlight \in {0, 1}
    /\ InFlight = 1 =>
          /\ D.pc = "handle"
          /\ D.handled[Len(D.handled)].n = D.i
    /\ D.pc = "replyError" =>
          /\ InFlight = 0
          /\ D.handled[Len(D.handled)].n = D.replies[Len(D.replies)].n

\* the second handler's handle is in flight after the first one failed with
\* a mapped message and its reply completed
C13_Witness ==
    /\ D.pc = "handle"
    /\ Len(D.handled) = 2
    /\ \E n \in 1..Len(D.replies) : D.replies[n].cause = "error"

----------------------------------------------------------------------------
(* Properties of concurrent dispatches *)

\* dispatch d ran every handler identity it accepted and reached its end
RanAllAccepted(d) ==
    /\ dispatch[d].pc = "done"
    /\ \A n \in 1..Len(dispatch[d].acceptedHiocs) :
          \E k \in 1..Len(dispatch[d].handled) :
             dispatch[d].handled[k].ioc = dispatch[d].acceptedHiocs[n].ioc

\* C14: while a handle call of dispatch 1 stays pending, a started dispatch 2
\* whose own awaits all settle runs all of its accepted handlers and
\* completes.
C14_HungDispatchStallsOnlyItself ==
    (dispatch[1].pc = "handle" /\ dispatch[2].pc # "idle")
        ~> (dispatch[1].pc # "handle" \/ RanAllAccepted(2))

\* the same, asking of dispatch 2 only that handleEvent ends
OtherDispatchEnds ==
    (dispatch[1].pc = "handle" /\ dispatch[2].pc # "idle")
        ~> (dispatch[1].pc # "handle" \/ dispatch[2].pc \in {"done", "threw"})

----------------------------------------------------------------------------
(* Properties of double registration *)

\* the key paths the declared classes register at
RegisteredPaths == UNION {{c.options.keyPaths[n] : n \in 1..Len(c.options.keyPaths)} :
                             c \in Commands}

RECURSIVE NodeAt(_, _)
NodeAt(tree, path) ==
    IF Len(path) = 0 THEN tree ELSE NodeAt(Child(tree, Head(path)), Tail(path))

\* the descriptors registered at the path in the tree the dispatch read
RegisteredAt(path) == NodeAt(D.tree, path).hiocs

AcceptedInDispatch(h) ==
    \E n \in 1..Len(D.acceptedHiocs) : D.acceptedHiocs[n] = h

\* the path holds several registrations and the dispatch accepted them all
SharedPathAllAccepted(path) ==
    /\ Len(RegisteredAt(path)) >= 2
    /\ \A n \in 1..Len(RegisteredAt(path)) : AcceptedInDispatch(RegisteredAt(path)[n])

\* handle calls the dispatch made on the registrations of the path
FiredAt(path) ==
    Cardinality({k \in 1..Len(D.handled) :
                    \E n \in 1..Len(RegisteredAt(path)) :
                       D.handled[k].ioc = RegisteredAt(path)[n].ioc})

\* the identities the registrations of the path have: one per stateful
\* registration, one per class for the stateless ones
IdentitiesAt(path) ==
    {IF RegisteredAt(path)[n].options.stateful
     THEN <<RegisteredAt(path)[n].ioc.cls, n>>
     ELSE <<RegisteredAt(path)[n].ioc.cls, 0>> : n \in 1..Len(RegisteredAt(path))}

C15_WitnessStateful ==
    /\ D.pc = "done"
    /\ \E path \in RegisteredPaths :
          /\ SharedPathAllAccepted(path)
          /\ Cardinality(IdentitiesAt(path)) = 2
          /\ FiredAt(path) = 2

----------------------------------------------------------------------------
(* Properties of initialize *)

SyncedEvents == {"SLASH_COMMAND", "CONTEXT_MENU_MESSAGE", "CONTEXT_MENU_USER"}

\* the step in which initialize rejects because the module loading failed,
\* or because the remote synchronization failed
LoadFails == startup.pc = "loading" /\ startup'.pc = "rejected"
SyncFails == startup.pc = "syncing" /\ startup'.pc = "rejected"

\* the step leaves the synchronized registries and the name-to-id map as
\* they were
RegistriesKept ==
    /\ \A e \in SyncedEvents : handlers'[e] = handlers[e]
    /\ nameIdMap' = nameIdMap

\* the step rejects with an error and logs exactly that error
LoggedAndRejected ==
    /\ startup'.rejected \in StartupErrors
    /\ startup'.logged = Append(startup.logged, startup'.rejected)

\* C16 as stated: when the module loading or the remote synchronization
\* fails, initialize logs the error, rejects with it and leaves the
\* synchronized registries and the name-to-id map as they were.
C16_FailureLoggedRejectedNothingReplaced ==
    [][(LoadFails \/ SyncFails) => (LoggedAndRejected /\ RegistriesKept)]_vars

\* C16 amended: a loading failure is logged and rejected with; a
\* synchronization failure is rejected with but not logged by initialize;
\* either leaves the synchronized registries and the map as they were.
C16_FailureRejectedNothingReplaced ==
    [][/\ LoadFails => (LoggedAndRejected /\ RegistriesKept)
       /\ SyncFails => /\ startup'.rejected \in StartupErrors
                       /\ startup'.logged = startup.logged
                       /\ RegistriesKept]_vars

\* the synchronization of a non-empty slash-command registry failed
C16_Witness ==
    /\ startup.pc = "rejected"
    /\ startup.args # <<>>
    /\ startup.args[1] # EmptyTree
    /\ startup.rejected = "eSync"

C16_WitnessLoad ==
    /\ startup.pc = "rejected"
    /\ startup.args = <<>>
    /\ startup.logged = <<"eLoad">>
    /\ handlers["SLASH_COMMAND"] # EmptyTree

\* the step in which initialize completes
SyncSucceeds == startup.pc = "syncing" /\ startup'.pc = "done"

\* the step puts the returned registries and map in place and leaves the
\* registry of every other event kind alone
ReturnedValuesInPlace ==
    /\ handlers'["SLASH_COMMAND"] = startup'.returned.slashCommandTree
    /\ handlers'["CONTEXT_MENU_MESSAGE"] = startup'.returned.messageTree
    /\ handlers'["CONTEXT_MENU_USER"] = startup'.returned.userTree
    /\ nameIdMap' = IF startup'.returned.nameIdMap.defined
                    THEN startup'.returned.nameIdMap.value ELSE NoIds
    /\ \A e \in Events \ SyncedEvents : handlers'[e] = handlers[e]

\* the id the returned map stores for the name, once initialize completed
StoredId(name) ==
    IF /\ probe.completed
       /\ startup.returned.nameIdMap.defined
       /\ name \in DOMAIN startup.returned.nameIdMap.value
    THEN startup.returned.nameIdMap.value[name]
    ELSE Undefined

\* C20: a successful initialize puts the three returned registries and the
\* returned name-to-id map in place and changes no other registry;
\* getIdForCommandName returns the id that map stores for the name, and
\* undefined for a name it lacks and for every name before initialize
\* completed.
C20_InitializeFrameAndLookup ==
    /\ [][SyncSucceeds => ReturnedValuesInPlace]_vars
    /\ [](probe.fn = "getIdForCommandName" => probe.result = StoredId(probe.name))

\* after initialize completed a registered name is looked up and its id
\* returned, the message registry still holding its handler
C20_Witness ==
    /\ probe.fn = "getIdForCommandName"
    /\ probe.completed
    /\ probe.result = "abc123"
    /\ handlers["MESSAGE"] # EmptyTree
    /\ "abc123" \in DOMAIN handlers["SLASH_COMMAND"].children

----------------------------------------------------------------------------
(* The slash-command example *)

PingPath == <<"abc123", "", "ping">>

\* a slash-command occurrence with the key path of the example, from a
\* direct message, has been dispatched
PingFromDirectMessage ==
    /\ D.pc # "idle"
    /\ D.event = "SLASH_COMMAND"
    /\ Len(D.args) = 1
    /\ D.args[1].handlerKeys = PingPath
    /\ D.args[1].isDirectMessage

\* the server-only descriptors registered at the path of the example
ServerOnlyAtPing ==
    {h \in {RegisteredAt(PingPath)[n] : n \in 1..Len(RegisteredAt(PingPath))} :
        h.options.location = "SERVER"}

HasWrongLocationText(h) ==
    /\ h.options.errors.defined
    /\ WRONG_LOCATION \in DOMAIN h.options.errors.value

\* C17: a server-only handler A registered at ["abc123", "", "ping"] and a
\* slash-command occurrence with that key path from a direct message: A gets
\* a Filter Result rejecting it with WRONG_LOCATION, its handle is never
\* called and, when A maps no message to that reason, no reply is sent for it.
C17_ServerOnlySlashRejectedInDirectMessage ==
    PingFromDirectMessage =>
        \A h \in ServerOnlyAtPing :
            /\ \E n \in 1..Len(D.filterResults) :
                  D.filterResults[n] =
                      [handler |-> h, accepted |-> FALSE, reason |-> WRONG_LOCATION]
            /\ HandleCount(h.ioc) = 0
            /\ ~HasWrongLocationText(h) =>
                  \A r \in 1..Len(D.replies) :
                      ~(/\ D.replies[r].cause = "rejection"
                        /\ D.rejections[D.replies[r].n].handler = h)

\* the dispatch of the example completed with A, which maps no message,
\* registered alone: nothing was sent and nothing ran
C17_Witness ==
    /\ PingFromDirectMessage
    /\ D.pc = "done"
    /\ \E h \in ServerOnlyAtPing : ~HasWrongLocationText(h)
    /\ D.replies = <<>>
    /\ D.handled = <<>>

----------------------------------------------------------------------------
(* Properties of getHandlers *)

\* the paths of the terminals of the tree
TerminalPaths(tree) ==
    {p \in SeqsUpTo(TreeKeys, MaxDepth) : isHIOCArray(NodeAt(tree, p))}

\* the terminal at path p is reached for the key path: every segment of p
\* is the wildcard, or the literal that the key path holds, non-empty, at
\* that level
Reached(p, keys) ==
    \A l \in 1..Len(p) :
        \/ p[l] = ""
        \/ l <= Len(keys) /\ keys[l] # "" /\ p[l] = keys[l]

\* the descriptors of the reached terminals
ReachedDescriptors(tree, keys) ==
    UNION {{NodeAt(tree, p).hiocs[n] : n \in 1..Len(NodeAt(tree, p).hiocs)} :
              p \in {q \in TerminalPaths(tree) : Reached(q, keys)}}

\* C18: getHandlers returns exactly the descriptors of the terminals reached
\* through wildcard children and, for a present non-empty segment, literal
\* children (a terminal reached with segments left over included), each
\* descriptor once.
C18_LookupIsFanOutUnion ==
    probe.fn = "getHandlers" /\ probe.called =>
        /\ {probe.result[n] : n \in 1..Len(probe.result)}
               = ReachedDescriptors(probe.tree, probe.keys)
        /\ \A m, n \in 1..Len(probe.result) :
              probe.result[m] = probe.result[n] => m = n

\* a key path with an empty first segment and segments left over, in a tree
\* with a terminal below the wildcard child and one below a literal child
C18_Witness ==
    /\ probe.fn = "getHandlers" /\ probe.called
    /\ Len(probe.keys) = 3 /\ probe.keys[1] = "" /\ probe.keys[2] = "a"
    /\ isHIOCArray(NodeAt(probe.tree, <<"", "a">>))
    /\ isHIOCArray(NodeAt(probe.tree, <<"", "">>))
    /\ isHIOCArray(NodeAt(probe.tree, <<"a">>))
    /\ Len(probe.result) = 4

----------------------------------------------------------------------------
(* Properties of handler instances *)

\* the identity is a class (a stateless registration)
IsClass(ioc) == ioc.instance = 0

\* the identities dispatch d called handle on, in call order
HandledIn(d) == [k \in 1..Len(dispatch[d].handled) |-> dispatch[d].handled[k].ioc]

AcceptedIn(d, ioc) ==
    \E n \in 1..Len(dispatch[d].acceptedHiocs) : dispatch[d].acceptedHiocs[n].ioc = ioc

\* the descriptors of the registry that carry the identity
RegisteredWith(ioc) ==
    {h \in UNION {{NodeAt(handlers["MESSAGE"], p).hiocs[n] :
                      n \in 1..Len(NodeAt(handlers["MESSAGE"], p).hiocs)} :
                     p \in RegisteredPaths} : h.ioc = ioc}

\* C19: in every dispatch the constructions (new instance()) are exactly one
\* per handle call on a class, made in the segment that starts that call -
\* the only other one is a construction that threw and ended the dispatch -
\* so none is made for an identity that is rejected or skipped; a handle
\* call on an instance is on the instance its stateful registration made,
\* the same in every dispatch, and constructs nothing.
C19_FreshInstancePerStatelessCall ==
    \A d \in DOMAIN dispatch :
        LET classCalls == SelectSeq(HandledIn(d), IsClass)
            made == dispatch[d].constructed
        IN  /\ IsPrefix(classCalls, made)
            /\ Len(made) <= Len(classCalls) + 1
            /\ Len(made) = Len(classCalls) + 1 => dispatch[d].pc = "threw"
            /\ \A m, n \in 1..Len(made) : made[m] = made[n] => m = n
            /\ \A n \in 1..Len(made) : IsClass(made[n]) /\ AcceptedIn(d, made[n])
            /\ \A k \in 1..Len(HandledIn(d)) :
                  ~IsClass(HandledIn(d)[k]) =>
                      /\ HandledIn(d)[k].instance \in 1..registered
                      /\ \A h \in RegisteredWith(HandledIn(d)[k]) : h.options.stateful

\* both dispatches called handle on the one instance of a stateful
\* registration, and both constructed the same class, once each
C19_Witness ==
    /\ \E ioc \in {HandledIn(1)[k] : k \in 1..Len(HandledIn(1))} :
          /\ ~IsClass(ioc)
          /\ Includes(HandledIn(2), ioc)
    /\ Len(dispatch[1].constructed) = 1
    /\ dispatch[2].constructed = dispatch[1].constructed

\* a dispatch that rejected a class under its occurrence and constructed
\* nothing
C19_WitnessRejected ==
    /\ dispatch[2].pc = "done"
    /\ dispatch[2].constructed = <<>>
    /\ \E n \in 1..Len(dispatch[2].filterResults) :
          /\ IsClass(dispatch[2].filterResults[n].handler.ioc)
          /\ ~dispatch[2].filterResults[n].accepted

----------------------------------------------------------------------------
(* Properties of the outcome of an identity *)

\* the handler identities among the candidates of the dispatch
Identities == {D.filterResults[n].handler.ioc : n \in 1..Len(D.filterResults)}

\* the rejection replies the dispatch sent on behalf of the identity
RejectionRepliesFor(ioc) ==
    {k \in 1..Len(D.replies) : D.replies[k].cause = "rejection" /\ D.replies[k].ioc = ioc}

\* the identity was rejected, under some occurrence, for a reason its map
\* holds a non-empty text for
HasMappedRejection(ioc) ==
    \E n \in 1..Len(Rejected) :
        /\ Rejected[n].handler.ioc = ioc
        /\ HasNonEmptyEntry(Rejected[n].handler.options.errors, Rejected[n].reason)

\* C21: in one dispatch every handler identity is executed at most once and
\* gets at most one filter-rejection reply, and an identity that was
\* executed gets no filter-rejection reply at all; every rejection reply is
\* on behalf of a candidate identity.
C21_OneOutcomePerIdentity ==
    /\ \A ioc \in Identities :
          /\ HandleCount(ioc) <= 1
          /\ Cardinality(RejectionRepliesFor(ioc)) <= 1
          /\ HandleCount(ioc) > 0 => RejectionRepliesFor(ioc) = {}
    /\ \A k \in 1..Len(D.replies) : D.replies[k].ioc \in Identities

\* a completed dispatch in which an identity was executed under one
\* occurrence and rejected with a mapped reason under another
C21_Witness ==
    /\ D.pc = "done"
    /\ \E ioc \in Identities :
          /\ HandleCount(ioc) = 1
          /\ HasMappedRejection(ioc)

\* a completed dispatch in which an identity was rejected twice with a
\* mapped reason and got its one reply
C21_WitnessRejectedTwice ==
    /\ D.pc = "done"
    /\ \E ioc \in Identities :
          /\ Cardinality({n \in 1..Len(Rejected) :
                 /\ Rejected[n].handler.ioc = ioc
                 /\ HasNonEmptyEntry(Rejected[n].handler.options.errors,
                                     Rejected[n].reason)}) >= 2
          /\ Cardinality(RejectionRepliesFor(ioc)) = 1

----------------------------------------------------------------------------
(* Properties of de-duplication across dispatches *)

ExecutedIn(d, ioc) == Includes(HandledIn(d), ioc)

\* the identities some dispatch found among its candidates
CandidateIdentities ==
    UNION {{dispatch[d].filterResults[n].handler.ioc :
               n \in 1..Len(dispatch[d].filterResults)} : d \in DOMAIN dispatch}

\* C22: a handler identity executed in one dispatch is executed as well in
\* every other dispatch that accepted it and has ended, whether the two ran
\* one after the other or overlapped.
C22_ExecutedInEveryAcceptingDispatch ==
    \A d1, d2 \in DOMAIN dispatch : \A ioc \in CandidateIdentities :
        (/\ d1 # d2
         /\ ExecutedIn(d1, ioc)
         /\ AcceptedIn(d2, ioc)
         /\ dispatch[d2].pc \in {"done", "threw"})
            => ExecutedIn(d2, ioc)

\* the same of the dispatches that reached the end of handleEvent
ExecutedInEveryCompletedDispatch ==
    \A d1, d2 \in DOMAIN dispatch : \A ioc \in CandidateIdentities :
        (/\ d1 # d2
         /\ ExecutedIn(d1, ioc)
         /\ AcceptedIn(d2, ioc)
         /\ dispatch[d2].pc = "done")
            => ExecutedIn(d2, ioc)

\* one instance of a stateful registration has a handle call in flight in
\* both dispatches
SingletonInFlightTwice ==
    /\ dispatch[1].pc = "handle"
    /\ dispatch[2].pc = "handle"
    /\ ~IsClass(dispatch[1].acceptedHiocs[dispatch[1].i].ioc)
    /\ dispatch[1].acceptedHiocs[dispatch[1].i].ioc
           = dispatch[2].acceptedHiocs[dispatch[2].i].ioc

----------------------------------------------------------------------------
(* A dispatch and the registry changes made while it is suspended *)

\* the registries as they stood when the dispatch started
SnapshotRegistries == [e \in Events |-> D.tree]

\* the Filter Results of the dispatch's occurrences over that snapshot
SnapshotResults == FlatMapInfos(SnapshotRegistries, D.args, D.event)

SnapshotAcceptedIocs ==
    LET hiocs == AcceptedHiocs(SnapshotResults)
    IN  [k \in 1..Len(hiocs) |-> hiocs[k].ioc]

\* every rejection reply sent so far answers a rejection of the snapshot with
\* that rejection's mapped text, in Filter Result order
RepliesFollowSnapshot ==
    LET got == RejectionReplySeq
        rejections == Rejections(SnapshotResults)
    IN  \A k \in 1..Len(got) :
           /\ got[k].n \in 1..Len(rejections)
           /\ HasNonEmptyEntry(rejections[got[k].n].handler.options.errors,
                               rejections[got[k].n].reason)
           /\ got[k].text = rejections[got[k].n].handler.options.errors.value[
                                rejections[got[k].n].reason]
           /\ \A k2 \in 1..(k - 1) : got[k2].n < got[k].n

\* the dispatch works off what it computed from the snapshot
DispatchFollowsSnapshot ==
    D.pc # "idle" =>
       /\ D.filterResults = SnapshotResults
       /\ IsPrefix(HandledIocs, FirstOccurrences(SnapshotAcceptedIocs))
       /\ RepliesFollowSnapshot

RegistryStep == handlers' # handlers \/ nameIdMap' # nameIdMap

DispatchStep == dispatch' # dispatch

\* C23: the Filter Results of a dispatch are those of the registries as they
\* stood when it started, and the identities it executes and the rejections
\* it answers follow them in order, whatever registration or initialize did
\* to the registries meanwhile; initialize puts the three registries and the
\* name-to-id map in place in one step, in which no dispatch moves, and no
\* step of a dispatch changes a registry or the map.
C23_DispatchFollowsItsSnapshot ==
    /\ []DispatchFollowsSnapshot
    /\ [][/\ SyncSucceeds => (ReturnedValuesInPlace /\ ~DispatchStep)
          /\ DispatchStep => ~RegistryStep]_vars

\* initialize replaced the slash registry the dispatch started from, the
\* replaced registry gives other Filter Results for the dispatch's occurrence,
\* and the dispatch went on to its end, an identity of the snapshot executed
C23_Witness ==
    /\ D.pc = "done"
    /\ D.event = "SLASH_COMMAND"
    /\ Len(D.handled) >= 1
    /\ startup.pc = "done"
    /\ D.tree = startup.args[1]
    /\ handlers["SLASH_COMMAND"] = startup.returned.slashCommandTree
    /\ FlatMapInfos(handlers, D.args, D.event) # D.filterResults

\* a registration added a candidate to the registry while the dispatch was
\* suspended in a handler: the dispatch ends with the one identity it found
C23_WitnessRegistration ==
    /\ D.pc = "done"
    /\ startup.pc = "idle"
    /\ Len(D.filterResults) = 1
    /\ Len(D.handled) = 1
    /\ Len(FlatMapInfos(handlers, D.args, D.event)) = 2

\* a rejection of the snapshot was answered after initialize replaced the
\* registry, under which the occurrence has no candidate left
C23_WitnessRejection ==
    /\ D.pc = "done"
    /\ Len(RejectionReplySeq) >= 1
    /\ startup.pc = "done"
    /\ D.tree = startup.args[1]
    /\ FlatMapInfos(handlers, D.args, D.event) = <<>>

====
